---- MODULE Spec2Model ----
(***************************************************************************)
(* The TSP algorithm engine of learning/docs/TSP-program.py: tour metrics, *)
(* construction algorithms, 2-opt, Held-Karp and the benchmark harness.    *)
(*                                                                         *)
(* A City is a pair <<x, y>> of integers.  A frozenset of cities is        *)
(* represented by the sequence of its elements in iteration order; a list  *)
(* (Tour, Segment) is a sequence.  A set derived from another one          *)
(* (cities - {A}) iterates in the order induced by the original.           *)
(* distance is abs(A - B) rounded down to 1/Prec; sums of distances are    *)
(* then exact.                                                             *)
(* A call's outcome is a record [kind, tour, err]: kind "tour" is a        *)
(* returned list, "None" a returned None, "raise" an exception err.        *)
(* depth is the depth of recursion at which the exception was raised.      *)
(***************************************************************************)
EXTENDS Integers, Sequences, FiniteSets, Bags, TLC

VARIABLES
  inst,            \* the Cities instance of the call under way, in iteration order
  called,          \* which function was called on it, with which arguments
  outcome,         \* the outcome of that call
  sseg_cache,      \* the lru_cache of shortest_segment
  solve,           \* the number of held_karp_tsp calls so far
  reads,           \* the solves whose cache entries the last solve read
  atStart,         \* the size of the cache when the last solve started
  o2_tour,         \* opt2: the list being optimized
  o2_tour0,        \* opt2: the list as first passed
  o2_k,            \* opt2: the position of the for loop in subsegments
  o2_changed,      \* opt2: the flag of the current pass
  o2_pc,           \* opt2: "loop" or "done"
  all_results,     \* {cities: [Result, ...]}
  run_cache,       \* the lru_cache of run
  benchmark_cache, \* the lru_cache of benchmark
  returned,        \* what the last harness call gave its caller
  clock,           \* the number of Results made so far
  frames,          \* threads: the stack of run calls of each thread
  got,             \* threads: what each thread's call returned
  g_endpoints,     \* greedy_tsp: the dict {endpoint: segment}
  g_links,         \* greedy_tsp: the links, shortest first
  g_k,             \* greedy_tsp: the position of the for loop in the links
  g_pc             \* greedy_tsp: "loop" or "done"

vars == << inst, called, outcome, sseg_cache, solve, reads, atStart,
           o2_tour, o2_tour0, o2_k, o2_changed, o2_pc,
           all_results, run_cache, benchmark_cache, returned, clock, frames, got,
           g_endpoints, g_links, g_k, g_pc >>

tspVars     == << inst, called, outcome >>
memoVars    == << sseg_cache, solve, reads, atStart >>
opt2Vars    == << o2_tour, o2_tour0, o2_k, o2_changed, o2_pc >>
harnessVars == << all_results, run_cache, benchmark_cache, returned, clock >>
threadVars  == << frames, got >>
greedyVars  == << g_endpoints, g_links, g_k, g_pc >>

\* ------------------------------------------------------------------ bounds
MaxN == 4
Prec == 1000
MaxRuns == 2
MaxSolves == 2
MaxTour == 5
MaxValid == 4

\* ---------------------------------------------------------------- inputs
Universe == { <<0, 0>>, <<3, 0>>, <<3, 4>>, <<0, 4>>, <<1, 1>>, <<2, 3>> }

\* ------------------------------------------------------- list operations
Range(s) == { s[i] : i \in 1 .. Len(s) }

Reversed(s) == [ i \in 1 .. Len(s) |-> s[Len(s) + 1 - i] ]

\* s[i] with a Python index i in -len .. len-1
At(s, i) == s[(i % Len(s)) + 1]

\* s[i:j] with Python indices 0 <= i <= j <= len
Slice(s, i, j) == [ k \in 1 .. (j - i) |-> s[i + k] ]

\* the elements of s that are in S, in the order of s
Restrict(s, S) == SelectSeq(s, LAMBDA x : x \in S)

RECURSIVE SumSeq(_)
SumSeq(s) == IF s = << >> THEN 0 ELSE Head(s) + SumSeq(Tail(s))

RECURSIVE Flatten(_)
Flatten(ss) == IF ss = << >> THEN << >> ELSE Head(ss) \o Flatten(Tail(ss))

\* every sequence of distinct elements of S with at most n elements
RECURSIVE Orders(_, _)
Orders(S, n) ==
  IF n = 0 THEN { << >> }
  ELSE LET shorter == Orders(S, n - 1)
       IN  shorter \cup { Append(s[1], s[2]) : s \in { p \in shorter \X S : p[2] \notin Range(p[1]) } }

\* outcomes of a call
Ret(t)   == [ kind |-> "tour", tour |-> t, err |-> "", depth |-> 0 ]
RetNone  == [ kind |-> "None", tour |-> << >>, err |-> "", depth |-> 0 ]
\* depth: the recursion depth of the frame the exception left first
RaiseAt(e, d) == [ kind |-> "raise", tour |-> << >>, err |-> e, depth |-> d ]
Raise(e) == RaiseAt(e, 0)

\* ------------------------------------------------ geometry and metrics
RECURSIVE IsqrtIn(_, _, _)
IsqrtIn(n, lo, hi) ==
  IF lo >= hi THEN lo
  ELSE LET mid == (lo + hi + 1) \div 2
       IN  IF mid * mid <= n THEN IsqrtIn(n, mid, hi) ELSE IsqrtIn(n, lo, mid - 1)

\* the integer part of Prec * sqrt(d2)
ScaledSqrt(d2) == IsqrtIn(d2 * Prec * Prec, 0, d2 * Prec)

\* |A - B| ^ 2
SqDist(A, B) == (A[1] - B[1]) * (A[1] - B[1]) + (A[2] - B[2]) * (A[2] - B[2])

SqrtTable ==
  [ d2 \in { SqDist(A, B) : A, B \in Universe } |-> ScaledSqrt(d2) ]

distance(A, B) == SqrtTable[SqDist(A, B)]

\* tour_length without the link from the last city back to the first
tour_length_open(tour) ==
  SumSeq([ k \in 1 .. (Len(tour) - 1) |-> distance(tour[k + 1], tour[k]) ])

tour_length(tour) ==
  SumSeq([ k \in 1 .. Len(tour) |-> distance(At(tour, k - 1), At(tour, k - 2)) ])

segment_length(segment) ==
  SumSeq([ k \in 1 .. (Len(segment) - 1) |-> distance(segment[k + 1], segment[k]) ])

Counter(s) == [ x \in Range(s) |-> Cardinality({ i \in 1 .. Len(s) : s[i] = x }) ]

\* a comparison of sets in place of the comparison of Counters
valid_tour_as_sets(tour, cities) == Range(tour) = Range(cities)

valid_tour(tour, cities) == Counter(tour) = Counter(cities)

\* the first element of seq with the smallest key (Python's min(seq, key=...));
\* keys[i] is the key of seq[i]
MinBy(seq, keys) ==
  seq[CHOOSE i \in 1 .. Len(seq) :
        /\ \A j \in 1 .. Len(seq) : keys[i] <= keys[j]
        /\ \A j \in 1 .. (i - 1) : keys[j] > keys[i]]

shortest(tours) == MinBy(tours, [ i \in 1 .. Len(tours) |-> tour_length(tours[i]) ])

nearest_neighbor(A, cities) ==
  MinBy(cities, [ i \in 1 .. Len(cities) |-> distance(cities[i], A) ])

\* ------------------------------------------- exhaustive and nearest neighbor
first_raises(collection) == collection = << >>

first(collection) == collection[1]

\* itertools.permutations: in lexicographic order of positions
RECURSIVE permutations(_)
permutations(s) ==
  IF s = << >> THEN << << >> >>
  ELSE Flatten([ i \in 1 .. Len(s) |->
         LET rest == permutations(Slice(s, 0, i - 1) \o Slice(s, i, Len(s)))
         IN  [ k \in 1 .. Len(rest) |-> << s[i] >> \o rest[k] ] ])

\* start, *others = cities  needs at least one city
possible_tours(cities) ==
  LET start  == Head(cities)
      others == Tail(cities)
      perms  == permutations(others)
  IN  [ k \in 1 .. Len(perms) |-> << start >> \o perms[k] ]

exhaustive_tsp(cities) ==
  IF cities = << >> THEN Raise("ValueError")
  ELSE Ret(shortest(possible_tours(cities)))

\* the start argument is << >> for None and << C >> for a city C;
\* City(0, 0) is the complex number 0, which `start or first(cities)` skips
Falsy(start) == start = << >> \/ start[1] = << 0, 0 >>

RECURSIVE nearest_loop(_, _)
nearest_loop(tour, unvisited) ==
  IF unvisited = << >> THEN tour
  ELSE LET C == nearest_neighbor(At(tour, -1), unvisited)
       IN  nearest_loop(Append(tour, C), Restrict(unvisited, Range(unvisited) \ { C }))

nearest_tsp(cities, start) ==
  IF Falsy(start) /\ first_raises(cities) THEN Raise("StopIteration")
  ELSE LET start1 == IF Falsy(start) THEN first(cities) ELSE start[1]
       IN  Ret(nearest_loop(<< start1 >>, Restrict(cities, Range(cities) \ { start1 })))

Min2(a, b) == IF a <= b THEN a ELSE b

\* random.sample(population, min(n, len(population))): the lists it can return
sample_raises(population, n) == Min2(n, Len(population)) < 0

sample(population, n) ==
  { s \in Orders(Range(population), Min2(n, Len(population))) :
      Len(s) = Min2(n, Len(population)) }

\* rep_nearest_tsp(cities, k) when sample(cities, k) returns smp
rep_nearest_tsp(cities, k, smp) ==
  IF sample_raises(cities, k) THEN Raise("ValueError")
  ELSE IF smp = << >> THEN Raise("ValueError")
  ELSE Ret(shortest([ i \in 1 .. Len(smp) |-> nearest_tsp(cities, << smp[i] >>).tour ]))

\* ------------------------------------------------------------------ 2-opt
\* reversal_is_improvement with the comparison the wrong way round
reversal_is_longer(tour, i, j) ==
  LET A == At(tour, i - 1)
      B == At(tour, i)
      C == At(tour, j - 1)
      D == At(tour, j % Len(tour))
  IN  distance(A, B) + distance(C, D) < distance(A, C) + distance(B, D)

reversal_is_improvement(tour, i, j) ==
  LET A == At(tour, i - 1)
      B == At(tour, i)
      C == At(tour, j - 1)
      D == At(tour, j % Len(tour))
  IN  distance(A, B) + distance(C, D) > distance(A, C) + distance(B, D)

subsegments(N) ==
  Flatten([ l \in 1 .. (N - 3) |->
    LET length == N - 1 - l
    IN  [ i \in 1 .. (N - length) |-> << i - 1, i - 1 + length >> ] ])

\* tour[i:j] = reversed(tour[i:j])
reverse_slice(tour, i, j) ==
  [ k \in 1 .. Len(tour) |-> IF k > i /\ k <= j THEN tour[i + j + 1 - k] ELSE tour[k] ]

\* the loop of opt2 from the k-th index pair on: [tour, changed] at its end
RECURSIVE opt2_pass(_, _, _)
opt2_pass(tour, changed, k) ==
  LET segs == subsegments(Len(tour))
  IN  IF k > Len(segs) THEN [ tour |-> tour, changed |-> changed ]
      ELSE IF reversal_is_improvement(tour, segs[k][1], segs[k][2])
           THEN opt2_pass(reverse_slice(tour, segs[k][1], segs[k][2]), TRUE, k + 1)
           ELSE opt2_pass(tour, changed, k + 1)

\* an opt2 that returns after its first pass
opt2_returns_anyway(changed) == TRUE

\* return (tour if not changed else opt2(tour)): is tour returned?
opt2_returns(changed) == ~ changed

RECURSIVE opt2(_)
opt2(tour) ==
  LET pass == opt2_pass(tour, FALSE, 1)
  IN  IF opt2_returns(pass.changed) THEN pass.tour ELSE opt2(pass.tour)

\* ----------------------------------------------------------------- greedy
\* sorted(seq, key=...): stable; keys[i] is the key of seq[i]
SortedBy(seq, keys) ==
  LET Before(j, i) == keys[j] < keys[i] \/ (keys[j] = keys[i] /\ j < i)
      Pos(i) == 1 + Cardinality({ j \in 1 .. Len(seq) : Before(j, i) })
  IN  [ p \in 1 .. Len(seq) |-> seq[CHOOSE i \in 1 .. Len(seq) : Pos(i) = p] ]

\* itertools.combinations(cities, 2)
combinations2(cities) ==
  Flatten([ i \in 1 .. Len(cities) |->
            [ k \in 1 .. (Len(cities) - i) |-> << cities[i], cities[i + k] >> ] ])

shortest_links_first(cities) ==
  LET links == combinations2(cities)
  IN  SortedBy(links, [ i \in 1 .. Len(links) |-> distance(links[i][1], links[i][2]) ])

\* endpoints is a function {endpoint: segment}; the result is the dict after
\* the call and the joined segment
join_segments(endpoints, A, B) ==
  LET Aseg0 == endpoints[A]
      Bseg0 == endpoints[B]
      Aseg1 == IF At(Aseg0, -1) # A THEN Reversed(Aseg0) ELSE Aseg0
      Bseg1 == IF Bseg0[1] # B THEN Reversed(Bseg0) ELSE Bseg0
      Aseg  == Aseg1 \o Bseg1
      ends  == { Aseg[1], At(Aseg, -1) }
  IN  [ endpoints |-> [ K \in ((DOMAIN endpoints) \ { A, B }) \cup ends |->
                          IF K \in ends THEN Aseg ELSE endpoints[K] ],
        joined    |-> Aseg ]

greedy_init(cities) == [ C \in Range(cities) |-> << C >> ]

\* a test that leaves out the comparison of the two segments
greedy_accepts_any(endpoints, A, B) ==
  A \in DOMAIN endpoints /\ B \in DOMAIN endpoints

greedy_accepts(endpoints, A, B) ==
  A \in DOMAIN endpoints /\ B \in DOMAIN endpoints /\ endpoints[A] # endpoints[B]

\* the for loop of greedy_tsp from the k-th link on
RECURSIVE greedy_loop(_, _, _, _)
greedy_loop(endpoints, links, k, n) ==
  IF k > Len(links) THEN RetNone
  ELSE IF greedy_accepts(endpoints, links[k][1], links[k][2])
       THEN LET j == join_segments(endpoints, links[k][1], links[k][2])
            IN  IF Len(j.joined) = n THEN Ret(j.joined)
                ELSE greedy_loop(j.endpoints, links, k + 1, n)
       ELSE greedy_loop(endpoints, links, k + 1, n)

greedy_tsp(cities) ==
  greedy_loop(greedy_init(cities), shortest_links_first(cities), 1, Len(cities))

\* -------------------------------------------------------------------- mst
\* tree is a function {parent: [child, ...]}
RECURSIVE mst_loop(_, _, _)
mst_loop(tree, links, n) ==
  IF Cardinality(DOMAIN tree) >= n THEN tree
  ELSE LET InTree(C) == C \in DOMAIN tree
           k  == CHOOSE i \in 1 .. Len(links) :
                   /\ InTree(links[i][1]) # InTree(links[i][2])
                   /\ \A j \in 1 .. (i - 1) : InTree(links[j][1]) = InTree(links[j][2])
           A  == IF InTree(links[k][1]) THEN links[k][1] ELSE links[k][2]
           B  == IF InTree(links[k][1]) THEN links[k][2] ELSE links[k][1]
       IN  mst_loop([ K \in (DOMAIN tree) \cup { B } |->
                        IF K = B THEN << >>
                        ELSE IF K = A THEN Append(tree[A], B) ELSE tree[K] ],
                    links, n)

\* needs at least one vertex
mst(vertexes) ==
  mst_loop([ K \in { first(vertexes) } |-> << >> ],
           shortest_links_first(vertexes), Len(vertexes))

RECURSIVE preorder_traversal(_, _)
preorder_traversal(tree, root) ==
  LET children == IF root \in DOMAIN tree THEN tree[root] ELSE << >>
  IN  << root >> \o
      Flatten([ k \in 1 .. Len(children) |-> preorder_traversal(tree, children[k]) ])

mst_tsp(cities) ==
  IF first_raises(cities) THEN Raise("StopIteration")
  ELSE Ret(preorder_traversal(mst(cities), first(cities)))

\* ----------------------------------------------------- divide and conquer
MaxOf(S) == CHOOSE m \in S : \A x \in S : x <= m
MinOf(S) == CHOOSE m \in S : \A x \in S : m <= x

\* needs at least one number
extent(numbers) == MaxOf(Range(numbers)) - MinOf(Range(numbers))

Xs(cities) == [ k \in 1 .. Len(cities) |-> cities[k][1] ]
Ys(cities) == [ k \in 1 .. Len(cities) |-> cities[k][2] ]

\* needs at least one city; the result is the pair of halves
split_cities(cities) ==
  LET wider  == extent(Xs(cities)) > extent(Ys(cities))
      sorted == SortedBy(cities, [ i \in 1 .. Len(cities) |->
                                       IF wider THEN cities[i][1] ELSE cities[i][2] ])
      middle == Len(cities) \div 2
  IN  << Slice(sorted, 0, middle), Slice(sorted, middle, Len(sorted)) >>

rotations(sequence) ==
  [ k \in 1 .. Len(sequence) |->
      Slice(sequence, k - 1, Len(sequence)) \o Slice(sequence, 0, k - 1) ]

\* the candidate tours of join_tours, in the order they are generated
join_candidates(tour1, tour2) ==
  LET segments1 == rotations(tour1)
      segments2 == rotations(tour2)
  IN  Flatten([ a \in 1 .. Len(segments1) |->
        Flatten([ b \in 1 .. Len(segments2) |->
          << segments1[a] \o segments2[b], segments1[a] \o Reversed(segments2[b]) >> ]) ])

\* the call at recursion depth d
RECURSIVE divide_tsp_at(_, _, _)
divide_tsp_at(cities, split, d) ==
  IF Len(cities) < split
  THEN LET r == exhaustive_tsp(cities)
       IN  IF r.kind = "raise" THEN RaiseAt(r.err, d) ELSE r
  ELSE IF cities = << >> THEN RaiseAt("ValueError", d)
  ELSE LET halves == split_cities(cities)
           r1     == divide_tsp_at(halves[1], split, d + 1)
           r2     == divide_tsp_at(halves[2], split, d + 1)
       IN  IF r1.kind = "raise" THEN r1
           ELSE IF r2.kind = "raise" THEN r2
           ELSE IF join_candidates(r1.tour, r2.tour) = << >> THEN RaiseAt("ValueError", d)
           ELSE Ret(shortest(join_candidates(r1.tour, r2.tour)))

divide_tsp(cities, split) == divide_tsp_at(cities, split, 0)

\* -------------------------------------------------------------- Held-Karp
\* The lru_cache of shortest_segment is a function from the argument tuple
\* << A, set of Bs, C >> to [seg, solve]: the cached segment and the number
\* of the held_karp_tsp call that computed it.  A call of shortest_segment
\* gives [seg, memo, hits]: its result, the cache after it and the solve
\* numbers of the entries that were served from the cache.
\* a cache_clear that clears nothing
cache_kept(memo) == memo

cache_clear(memo) == << >>

NoMemo == cache_clear(<< >>)

RECURSIVE shortest_segment(_, _, _, _, _, _)
RECURSIVE segment_candidates(_, _, _, _, _, _, _)

shortest_segment(A, Bs, C, memo, hits, sid) ==
  LET key == << A, Range(Bs), C >>
  IN  IF key \in DOMAIN memo
      THEN [ seg |-> memo[key].seg, memo |-> memo, hits |-> hits \cup { memo[key].solve } ]
      ELSE IF Bs = << >>
      THEN [ seg  |-> << A, C >>,
             memo |-> memo @@ (key :> [ seg |-> << A, C >>, solve |-> sid ]),
             hits |-> hits ]
      ELSE LET r    == segment_candidates(A, Bs, C, 1, memo, hits, sid)
               best == MinBy(r.segs, [ i \in 1 .. Len(r.segs) |-> segment_length(r.segs[i]) ])
           IN  [ seg  |-> best,
                 memo |-> r.memo @@ (key :> [ seg |-> best, solve |-> sid ]),
                 hits |-> r.hits ]

\* shortest_segment(A, Bs - {B}, B) + [C] for the k-th and later B in Bs
segment_candidates(A, Bs, C, k, memo, hits, sid) ==
  IF k > Len(Bs) THEN [ segs |-> << >>, memo |-> memo, hits |-> hits ]
  ELSE LET B    == Bs[k]
           r    == shortest_segment(A, Restrict(Bs, Range(Bs) \ { B }), B, memo, hits, sid)
           rest == segment_candidates(A, Bs, C, k + 1, r.memo, r.hits, sid)
       IN  [ segs |-> << Append(r.seg, C) >> \o rest.segs,
             memo |-> rest.memo, hits |-> rest.hits ]

\* shortest_segment(A, cities - {A, C}, C) for the k-th and later C in ends
RECURSIVE held_karp_segments(_, _, _, _, _, _, _)
held_karp_segments(A, cities, ends, k, memo, hits, sid) ==
  IF k > Len(ends) THEN [ segs |-> << >>, memo |-> memo, hits |-> hits ]
  ELSE LET C    == ends[k]
           r    == shortest_segment(A, Restrict(cities, Range(cities) \ { A, C }), C,
                                    memo, hits, sid)
           rest == held_karp_segments(A, cities, ends, k + 1, r.memo, r.hits, sid)
       IN  [ segs |-> << r.seg >> \o rest.segs, memo |-> rest.memo, hits |-> rest.hits ]

\* held_karp_tsp(cities) as call number sid with the cache memo: the outcome,
\* the cache after the call, the solves whose entries were read, and the
\* number of entries in the cache when the first shortest_segment call is due
held_karp_call(cities, memo, sid) ==
  IF first_raises(cities)
  THEN [ out |-> Raise("StopIteration"), memo |-> memo, hits |-> { }, begun |-> FALSE, atStart |-> 0 ]
  ELSE LET A     == first(cities)
           memo0 == cache_clear(memo)
           r     == held_karp_segments(A, cities, Restrict(cities, Range(cities) \ { A }), 1,
                                       memo0, { }, sid)
       IN  [ out     |-> IF r.segs = << >> THEN Raise("ValueError") ELSE Ret(shortest(r.segs)),
             memo    |-> r.memo,
             hits    |-> r.hits,
             begun   |-> TRUE,
             atStart |-> Cardinality(DOMAIN memo0) ]

held_karp_tsp(cities) == held_karp_call(cities, NoMemo, 0).out

\* ================================================= one call of an algorithm
Inputs == Orders(Universe, MaxN)

Splits == { -1, 0, 1, 2, 3, 7 }

Ks == { -1, 0, 1, 2, 10 }

NotCalled == [ f |-> "", n |-> 0, start |-> << >>, opt |-> FALSE ]

Call(f, n, start) == [ f |-> f, n |-> n, start |-> start, opt |-> FALSE ]

\* nothing has been called; the other components are not in use
TspInit ==
  /\ inst \in Inputs
  /\ called = NotCalled
  /\ outcome = RetNone
  /\ sseg_cache = NoMemo /\ solve = 0 /\ reads = { } /\ atStart = 0
  /\ g_endpoints = << >> /\ g_links = << >> /\ g_k = 0 /\ g_pc = ""
  /\ o2_tour = << >> /\ o2_tour0 = << >> /\ o2_k = 0 /\ o2_changed = FALSE /\ o2_pc = ""
  /\ all_results = << >> /\ run_cache = << >> /\ benchmark_cache = << >>
  /\ returned = << >> /\ clock = 0
  /\ frames = << >> /\ got = << >>

ExhaustiveTsp ==
  /\ called = NotCalled
  /\ called' = Call("exhaustive_tsp", 0, << >>)
  /\ outcome' = exhaustive_tsp(inst)
  /\ UNCHANGED << greedyVars, inst, memoVars, opt2Vars, harnessVars, threadVars >>

NearestTsp ==
  /\ called = NotCalled
  /\ \E start \in { << >> } \cup { << C >> : C \in Range(inst) } :
       /\ called' = Call("nearest_tsp", 0, start)
       /\ outcome' = nearest_tsp(inst, start)
  /\ UNCHANGED << greedyVars, inst, memoVars, opt2Vars, harnessVars, threadVars >>

RepNearestTsp ==
  /\ called = NotCalled
  /\ \E n \in Ks :
       /\ called' = Call("rep_nearest_tsp", n, << >>)
       /\ IF sample_raises(inst, n)
          THEN outcome' = rep_nearest_tsp(inst, n, << >>)
          ELSE \E smp \in sample(inst, n) : outcome' = rep_nearest_tsp(inst, n, smp)
  /\ UNCHANGED << greedyVars, inst, memoVars, opt2Vars, harnessVars, threadVars >>

GreedyTsp ==
  /\ called = NotCalled
  /\ called' = Call("greedy_tsp", 0, << >>)
  /\ outcome' = greedy_tsp(inst)
  /\ UNCHANGED << greedyVars, inst, memoVars, opt2Vars, harnessVars, threadVars >>

MstTsp ==
  /\ called = NotCalled
  /\ called' = Call("mst_tsp", 0, << >>)
  /\ outcome' = mst_tsp(inst)
  /\ UNCHANGED << greedyVars, inst, memoVars, opt2Vars, harnessVars, threadVars >>

DivideTsp ==
  /\ called = NotCalled
  /\ \E split \in Splits :
       /\ called' = Call("divide_tsp", split, << >>)
       /\ outcome' = divide_tsp(inst, split)
  /\ UNCHANGED << greedyVars, inst, memoVars, opt2Vars, harnessVars, threadVars >>

\* opt2(tour) on what the construction returned; list(None) is a TypeError
Opt2Call ==
  /\ called # NotCalled /\ ~ called.opt
  /\ outcome.kind # "raise"
  /\ called' = [ called EXCEPT !.opt = TRUE ]
  /\ outcome' = IF outcome.kind = "None" THEN Raise("TypeError") ELSE Ret(opt2(outcome.tour))
  /\ UNCHANGED << greedyVars, inst, memoVars, opt2Vars, harnessVars, threadVars >>

HeldKarpTsp ==
  /\ called = NotCalled
  /\ LET r == held_karp_call(inst, sseg_cache, solve + 1)
     IN  /\ called' = Call("held_karp_tsp", 0, << >>)
         /\ outcome' = r.out
         /\ sseg_cache' = r.memo
         /\ solve' = IF r.begun THEN solve + 1 ELSE solve
         /\ reads' = IF r.begun THEN r.hits ELSE reads
         /\ atStart' = IF r.begun THEN r.atStart ELSE atStart
  /\ UNCHANGED << greedyVars, inst, opt2Vars, harnessVars, threadVars >>

TspNext ==
  \/ ExhaustiveTsp
  \/ NearestTsp
  \/ RepNearestTsp
  \/ GreedyTsp
  \/ MstTsp
  \/ DivideTsp
  \/ HeldKarpTsp
  \/ Opt2Call

SpecTsp == TspInit /\ [][TspNext]_vars

\* ------------------------------- held_karp_tsp on one problem after another
HeldKarpUniverse == { << 0, 0 >>, << 3, 0 >>, << 3, 4 >>, << 0, 4 >> }

HeldKarpInputs == Orders(HeldKarpUniverse, MaxN)

HeldKarpInit ==
  /\ inst \in HeldKarpInputs
  /\ called = NotCalled
  /\ outcome = RetNone
  /\ sseg_cache = NoMemo /\ solve = 0 /\ reads = { } /\ atStart = 0
  /\ g_endpoints = << >> /\ g_links = << >> /\ g_k = 0 /\ g_pc = ""
  /\ o2_tour = << >> /\ o2_tour0 = << >> /\ o2_k = 0 /\ o2_changed = FALSE /\ o2_pc = ""
  /\ all_results = << >> /\ run_cache = << >> /\ benchmark_cache = << >>
  /\ returned = << >> /\ clock = 0
  /\ frames = << >> /\ got = << >>

\* the caller turns to another Cities set
NextProblem ==
  /\ called # NotCalled
  /\ solve < MaxSolves
  /\ inst' \in HeldKarpInputs
  /\ called' = NotCalled
  /\ outcome' = RetNone
  /\ UNCHANGED << greedyVars, memoVars, opt2Vars, harnessVars, threadVars >>

HeldKarpNext ==
  \/ HeldKarpTsp
  \/ NextProblem

SpecHeldKarp == HeldKarpInit /\ [][HeldKarpNext]_vars

\* ======================================================= opt2, step by step
\* One step is one iteration of the for loop of opt2, or the return
\* statement that follows the loop.
Opt2Inputs == Orders(Universe, MaxTour)

Opt2Init ==
  /\ o2_tour \in Opt2Inputs
  /\ o2_tour0 = o2_tour
  /\ o2_k = 1
  /\ o2_changed = FALSE
  /\ o2_pc = "loop"
  /\ inst = << >> /\ called = NotCalled /\ outcome = RetNone
  /\ sseg_cache = NoMemo /\ solve = 0 /\ reads = { } /\ atStart = 0
  /\ g_endpoints = << >> /\ g_links = << >> /\ g_k = 0 /\ g_pc = ""
  /\ all_results = << >> /\ run_cache = << >> /\ benchmark_cache = << >>
  /\ returned = << >> /\ clock = 0
  /\ frames = << >> /\ got = << >>

Opt2InLoop == o2_pc = "loop" /\ o2_k <= Len(subsegments(Len(o2_tour)))

Opt2Pair == subsegments(Len(o2_tour))[o2_k]

Opt2Reverse ==
  /\ Opt2InLoop
  /\ reversal_is_improvement(o2_tour, Opt2Pair[1], Opt2Pair[2])
  /\ o2_tour' = reverse_slice(o2_tour, Opt2Pair[1], Opt2Pair[2])
  /\ o2_changed' = TRUE
  /\ o2_k' = o2_k + 1
  /\ UNCHANGED << greedyVars, o2_tour0, o2_pc, tspVars, memoVars, harnessVars, threadVars >>

Opt2Keep ==
  /\ Opt2InLoop
  /\ ~ reversal_is_improvement(o2_tour, Opt2Pair[1], Opt2Pair[2])
  /\ o2_k' = o2_k + 1
  /\ UNCHANGED << greedyVars, o2_tour, o2_tour0, o2_changed, o2_pc, tspVars, memoVars, harnessVars, threadVars >>

\* return opt2(tour): the next pass
Opt2Again ==
  /\ o2_pc = "loop" /\ ~ Opt2InLoop
  /\ ~ opt2_returns(o2_changed)
  /\ o2_k' = 1
  /\ o2_changed' = FALSE
  /\ UNCHANGED << greedyVars, o2_tour, o2_tour0, o2_pc, tspVars, memoVars, harnessVars, threadVars >>

\* return tour
Opt2Return ==
  /\ o2_pc = "loop" /\ ~ Opt2InLoop
  /\ opt2_returns(o2_changed)
  /\ o2_pc' = "done"
  /\ UNCHANGED << greedyVars, o2_tour, o2_tour0, o2_k, o2_changed, tspVars, memoVars, harnessVars, threadVars >>

Opt2Next ==
  \/ Opt2Reverse
  \/ Opt2Keep
  \/ Opt2Again
  \/ Opt2Return

SpecOpt2 == Opt2Init /\ [][Opt2Next]_vars

\* the interpreter keeps running the call
FairOpt2 == SpecOpt2 /\ WF_vars(Opt2Next)

\* ======================================================= benchmark harness
\* A Result is [tsp, opt, tour, cities, secs]: tour is the outcome record of
\* the tour (a list or None), cities the set, and secs, the time measured,
\* is the serial number of the Result, so that two runs give two Results.
\* The harness state H is [all_results, run_cache, clock].
\* A call of run gives [H, err, res]: the state after it, the exception it
\* raised ("" for none) and the Result it returned.
One == << << 1, 1 >> >>

Four == << << 0, 0 >>, << 0, 4 >>, << 1, 1 >>, << 3, 0 >> >>

HarnessCities == { One, Four }

HarnessTsps == { "nearest_tsp", "greedy_tsp" }

TspLists == { << "nearest_tsp" >>, << "greedy_tsp", "nearest_tsp" >> }

TestSets == { << Four >>, << Four, One >> }

\* how the opt argument reaches run: left out, by position or by keyword
OptForms == { << "None", "omitted" >>, << "None", "positional" >>, << "None", "keyword" >>,
              << "opt2", "positional" >>, << "opt2", "keyword" >> }

OptsLists == { << "None", "opt2" >>, << "None" >>, << "opt2" >> }

NoResult == [ tsp |-> "", opt |-> "", tour |-> RetNone, cities |-> { }, secs |-> 0 ]

\* tsp(cities) with the default arguments of tsp
call_tsp(tsp, cities) ==
  CASE tsp = "exhaustive_tsp" -> exhaustive_tsp(cities)
    [] tsp = "nearest_tsp"    -> nearest_tsp(cities, << >>)
    [] tsp = "greedy_tsp"     -> greedy_tsp(cities)
    [] tsp = "mst_tsp"        -> mst_tsp(cities)
    [] tsp = "divide_tsp"     -> divide_tsp(cities, 7)

\* the algorithms are functions of their arguments: their values on the
\* inputs of the harness are worked out once
TourTable == [ tsp \in HarnessTsps |-> [ c \in HarnessCities |-> call_tsp(tsp, c) ] ]

Opt2Table ==
  [ t \in { TourTable[tsp][c].tour : tsp \in HarnessTsps, c \in HarnessCities } |-> opt2(t) ]

apply_tsp(tsp, cities) == TourTable[tsp][cities]

\* opt(Tour(res0.tour)); list(None) is a TypeError
apply_opt(opt, out) ==
  IF out.kind = "None" THEN Raise("TypeError") ELSE Ret(Opt2Table[out.tour])

\* the key functools.lru_cache makes of the arguments of a call: positional
\* arguments, then a mark and the keyword arguments
make_key(f, arg, opt, form) == [ f |-> f, arg |-> arg, opt |-> opt, form |-> form ]

\* an assignment in place of the append
replace_result(history, result) == << result >>

\* all_results[cities].append(result)
append_result(history, result) == Append(history, result)

length(result) == tour_length(result.tour.tour)

\* all_results[cities].sort(key=length)
sort_history(history) ==
  SortedBy(history, [ i \in 1 .. Len(history) |-> length(history[i]) ])

\* Counter(None) is the empty Counter
assert_valid(out, cities) == valid_tour(out.tour, cities)

\* run from the making of the Result on: the append, then the assert
run_finish(H, tsp, cities, opt, out, key) ==
  LET result == [ tsp |-> tsp, opt |-> opt, tour |-> out, cities |-> Range(cities),
                  secs |-> H.clock + 1 ]
      H1 == [ H EXCEPT !.all_results[Range(cities)] = append_result(@, result),
                       !.clock = @ + 1 ]
  IN  IF ~ assert_valid(out, cities)
      THEN [ H |-> H1, err |-> "AssertionError", res |-> NoResult ]
      ELSE [ H |-> [ H1 EXCEPT !.run_cache = (key :> result) @@ @ ], err |-> "", res |-> result ]

\* run once tsp or opt has given out, a tour or an exception
run_tour(H, tsp, cities, opt, out, key) ==
  IF out.kind = "raise" THEN [ H |-> H, err |-> out.err, res |-> NoResult ]
  ELSE run_finish(H, tsp, cities, opt, out, key)

\* run(tsp, cities) with opt None or left out
run_plain(H, tsp, cities, form) ==
  LET key == make_key(tsp, Range(cities), "None", form)
  IN  IF key \in DOMAIN H.run_cache
      THEN [ H |-> H, err |-> "", res |-> H.run_cache[key] ]
      ELSE run_tour(H, tsp, cities, "None", apply_tsp(tsp, cities), key)

\* run with an opt, once the inner run(tsp, cities, None) has given r0
run_opt(r0, tsp, cities, opt, key) ==
  IF r0.err # "" THEN r0
  ELSE run_tour(r0.H, tsp, cities, opt, apply_opt(opt, r0.res.tour), key)

run(H, tsp, cities, opt, form) ==
  IF opt = "None" THEN run_plain(H, tsp, cities, form)
  ELSE LET key == make_key(tsp, Range(cities), opt, form)
       IN  IF key \in DOMAIN H.run_cache
           THEN [ H |-> H, err |-> "", res |-> H.run_cache[key] ]
           ELSE run_opt(run_plain(H, tsp, cities, "positional"), tsp, cities, opt, key)

\* [run(algorithm, test, opt=opt) for test in tests] from the i-th test on:
\* [H, err, results]; benchmark_rest is the loop once the i-th run has given r
RECURSIVE benchmark_loop(_, _, _, _, _)
RECURSIVE benchmark_rest(_, _, _, _, _)
benchmark_loop(H, algorithm, tests, opt, i) ==
  IF i > Len(tests) THEN [ H |-> H, err |-> "", results |-> << >> ]
  ELSE benchmark_rest(run(H, algorithm, tests[i], opt, "keyword"), algorithm, tests, opt, i)

benchmark_rest(r, algorithm, tests, opt, i) ==
  IF r.err # "" THEN [ H |-> r.H, err |-> r.err, results |-> << >> ]
  ELSE [ benchmark_loop(r.H, algorithm, tests, opt, i + 1) EXCEPT !.results = << r.res >> \o @ ]

\* itertools.product(tsps, opts)
product(tsps, opts) ==
  Flatten([ a \in 1 .. Len(tsps) |-> [ b \in 1 .. Len(opts) |-> << tsps[a], opts[b] >> ] ])

\* the for loop of runs from the i-th pair on: [H, err]; runs_rest is the
\* loop once the i-th run has given r
RECURSIVE runs_loop(_, _, _, _)
RECURSIVE runs_rest(_, _, _, _)
runs_loop(H, pairs, cities, i) ==
  IF i > Len(pairs) THEN [ H |-> H, err |-> "" ]
  ELSE runs_rest(run(H, pairs[i][1], cities, pairs[i][2], "positional"), pairs, cities, i)

runs_rest(r, pairs, cities, i) ==
  IF r.err # "" THEN [ H |-> r.H, err |-> r.err ]
  ELSE runs_loop(r.H, pairs, cities, i + 1)

\* the sort and the return of runs, r being what the loop gave; length(r) of
\* a Result whose tour is None is a TypeError, and a sort that raises changes
\* nothing
runs_sort(r, cities) ==
  LET history == r.H.all_results[Range(cities)]
  IN  IF r.err # "" THEN [ H |-> r.H, err |-> r.err, results |-> << >> ]
      ELSE IF \E i \in 1 .. Len(history) : history[i].tour.kind = "None"
      THEN [ H |-> r.H, err |-> "TypeError", results |-> << >> ]
      ELSE [ H       |-> [ r.H EXCEPT !.all_results[Range(cities)] = sort_history(@) ],
             err     |-> "",
             results |-> sort_history(history) ]

\* runs(tsps, cities, opts): [H, err, results]
runs(H, tsps, cities, opts) == runs_sort(runs_loop(H, product(tsps, opts), cities, 1), cities)

\* run(tsp, cities, opt=opt).tour for tsp in algorithms, from the i-th on:
\* [H, err, tours]; ensemble_rest is the loop once the i-th run has given r
RECURSIVE ensemble_loop(_, _, _, _, _)
RECURSIVE ensemble_rest(_, _, _, _, _)
ensemble_loop(H, cities, algorithms, opt, i) ==
  IF i > Len(algorithms) THEN [ H |-> H, err |-> "", tours |-> << >> ]
  ELSE ensemble_rest(run(H, algorithms[i], cities, opt, "keyword"), cities, algorithms, opt, i)

ensemble_rest(r, cities, algorithms, opt, i) ==
  IF r.err # "" THEN [ H |-> r.H, err |-> r.err, tours |-> << >> ]
  ELSE [ ensemble_loop(r.H, cities, algorithms, opt, i + 1) EXCEPT !.tours = << r.res.tour >> \o @ ]

\* shortest(...) of the tours r holds: shortest of no tour is a ValueError,
\* tour_length(None) a TypeError
ensemble_shortest(r) ==
  IF r.err # "" THEN Raise(r.err)
  ELSE IF r.tours = << >> THEN Raise("ValueError")
  ELSE IF \E i \in 1 .. Len(r.tours) : r.tours[i].kind = "None" THEN Raise("TypeError")
  ELSE Ret(shortest([ i \in 1 .. Len(r.tours) |-> r.tours[i].tour ]))

\* what a harness call gave its caller: the exception, or the Results or
\* the tour it returned; key is the cache key of a call of run
Returned(op, key, err, results, out) ==
  [ op |-> op, key |-> key, err |-> err, results |-> results, tour |-> out ]

NoKey == make_key("", { }, "", "")

HarnessState == [ all_results |-> all_results, run_cache |-> run_cache, clock |-> clock ]

HarnessInit ==
  /\ all_results = [ S \in { Range(c) : c \in HarnessCities } |-> << >> ]
  /\ run_cache = << >>
  /\ benchmark_cache = << >>
  /\ returned = Returned("", NoKey, "", << >>, RetNone)
  /\ clock = 0
  /\ inst = << >> /\ called = NotCalled /\ outcome = RetNone
  /\ sseg_cache = NoMemo /\ solve = 0 /\ reads = { } /\ atStart = 0
  /\ g_endpoints = << >> /\ g_links = << >> /\ g_k = 0 /\ g_pc = ""
  /\ o2_tour = << >> /\ o2_tour0 = << >> /\ o2_k = 0 /\ o2_changed = FALSE /\ o2_pc = ""
  /\ frames = << >> /\ got = << >>

\* the harness takes the state H
SetHarness(H) ==
  /\ all_results' = H.all_results
  /\ run_cache' = H.run_cache
  /\ clock' = H.clock

\* a call of run has given r
RunReturns(r, key) ==
  /\ SetHarness(r.H)
  /\ returned' = Returned("run", key, r.err, IF r.err = "" THEN << r.res >> ELSE << >>, RetNone)

Run ==
  /\ clock < MaxRuns
  /\ \E tsp \in HarnessTsps, c \in HarnessCities, of \in OptForms :
       RunReturns(run(HarnessState, tsp, c, of[1], of[2]), make_key(tsp, Range(c), of[1], of[2]))
  /\ UNCHANGED << greedyVars, benchmark_cache, tspVars, memoVars, opt2Vars, threadVars >>

\* the list comprehension of benchmark has given r; a list that was made is
\* stored under key
BenchmarkReturns(r, key) ==
  /\ SetHarness(r.H)
  /\ returned' = Returned("benchmark", NoKey, r.err, r.results, RetNone)
  /\ benchmark_cache' = IF r.err = "" THEN (key :> r.results) @@ benchmark_cache
                        ELSE benchmark_cache

Benchmark ==
  /\ clock < MaxRuns
  /\ \E algorithm \in HarnessTsps, tests \in TestSets, of \in OptForms :
       LET key == make_key(algorithm, [ i \in 1 .. Len(tests) |-> Range(tests[i]) ], of[1], of[2])
       IN  IF key \in DOMAIN benchmark_cache
           THEN /\ returned' = Returned("benchmark", NoKey, "", benchmark_cache[key], RetNone)
                /\ UNCHANGED << all_results, run_cache, clock, benchmark_cache >>
           ELSE BenchmarkReturns(benchmark_loop(HarnessState, algorithm, tests, of[1], 1), key)
  /\ UNCHANGED << greedyVars, tspVars, memoVars, opt2Vars, threadVars >>

RunsReturns(r) ==
  /\ SetHarness(r.H)
  /\ returned' = Returned("runs", NoKey, r.err, r.results, RetNone)

Runs ==
  /\ clock < MaxRuns
  /\ \E tsps \in TspLists, c \in HarnessCities, opts \in OptsLists :
       RunsReturns(runs(HarnessState, tsps, c, opts))
  /\ UNCHANGED << greedyVars, benchmark_cache, tspVars, memoVars, opt2Vars, threadVars >>

\* the runs of ensemble_tsp have given r, and shortest has given out
EnsembleReturns(r, out) ==
  /\ SetHarness(r.H)
  /\ returned' = Returned("ensemble_tsp", NoKey, IF out.kind = "raise" THEN out.err ELSE "",
                          << >>, IF out.kind = "raise" THEN RetNone ELSE out)

\* the tours are read off the runs
EnsembleRuns(r) == EnsembleReturns(r, ensemble_shortest(r))

EnsembleTsp ==
  /\ clock < MaxRuns
  /\ \E c \in HarnessCities, algorithms \in TspLists, opt \in { "None", "opt2" } :
       EnsembleRuns(ensemble_loop(HarnessState, c, algorithms, opt, 1))
  /\ UNCHANGED << greedyVars, benchmark_cache, tspVars, memoVars, opt2Vars, threadVars >>

Next ==
  \/ Run
  \/ Benchmark
  \/ Runs
  \/ EnsembleTsp

Init == HarnessInit

Spec == Init /\ [][Next]_vars

\* ============================================ two threads calling run at once
\* Each thread has a stack of calls of run.  A frame is [tsp, cities, opt,
\* form, pc, out, res0, res]; pc is the place of the call: "lookup" (the
\* wrapper of lru_cache looks the key up), "body" (a miss: the function is
\* entered), "opt" (after the inner run), "append", "assert", "store" (the
\* wrapper stores the Result).  One step is what a thread does without
\* another thread running in between.
Threads == { 1, 2 }

Frame(tsp, cities, opt, form) ==
  [ tsp |-> tsp, cities |-> cities, opt |-> opt, form |-> form, pc |-> "lookup",
    out |-> RetNone, res0 |-> NoResult, res |-> NoResult ]

NotYet == [ done |-> FALSE, err |-> "", res |-> NoResult ]

ThreadInit ==
  /\ \E tsp \in HarnessTsps, c \in HarnessCities, of \in OptForms :
       frames = [ t \in Threads |-> << Frame(tsp, c, of[1], of[2]) >> ]
  /\ got = [ t \in Threads |-> NotYet ]
  /\ all_results = [ S \in { Range(c) : c \in HarnessCities } |-> << >> ]
  /\ run_cache = << >>
  /\ benchmark_cache = << >>
  /\ returned = Returned("", NoKey, "", << >>, RetNone)
  /\ clock = 0
  /\ inst = << >> /\ called = NotCalled /\ outcome = RetNone
  /\ sseg_cache = NoMemo /\ solve = 0 /\ reads = { } /\ atStart = 0
  /\ g_endpoints = << >> /\ g_links = << >> /\ g_k = 0 /\ g_pc = ""
  /\ o2_tour = << >> /\ o2_tour0 = << >> /\ o2_k = 0 /\ o2_changed = FALSE /\ o2_pc = ""

Top(t) == frames[t][Len(frames[t])]

FrameKey(f) == make_key(f.tsp, Range(f.cities), f.opt, f.form)

Running(t, pc) == frames[t] # << >> /\ Top(t).pc = pc

SetTop(t, f) == frames' = [ frames EXCEPT ![t] = [ @ EXCEPT ![Len(@)] = f ] ]

\* the top call of t returns res: to the frame below, or to the thread
Deliver(t, res) ==
  IF Len(frames[t]) = 1
  THEN /\ frames' = [ frames EXCEPT ![t] = << >> ]
       /\ got' = [ got EXCEPT ![t] = [ done |-> TRUE, err |-> "", res |-> res ] ]
  ELSE /\ frames' = [ frames EXCEPT ![t] =
                      [ i \in 1 .. (Len(@) - 1) |->
                          IF i = Len(@) - 1 THEN [ @[i] EXCEPT !.res0 = res ] ELSE @[i] ] ]
       /\ got' = got

\* the exception err leaves every call of t
Unwind(t, err) ==
  /\ frames' = [ frames EXCEPT ![t] = << >> ]
  /\ got' = [ got EXCEPT ![t] = [ done |-> TRUE, err |-> err, res |-> NoResult ] ]

ThreadLookup(t) ==
  /\ Running(t, "lookup")
  /\ IF FrameKey(Top(t)) \in DOMAIN run_cache
     THEN Deliver(t, run_cache[FrameKey(Top(t))])
     ELSE SetTop(t, [ Top(t) EXCEPT !.pc = "body" ]) /\ got' = got
  /\ UNCHANGED << greedyVars, harnessVars, tspVars, memoVars, opt2Vars >>

\* tour = tsp(cities)
ThreadTsp(t) ==
  /\ Running(t, "body") /\ Top(t).opt = "None"
  /\ LET out == apply_tsp(Top(t).tsp, Top(t).cities)
     IN  IF out.kind = "raise" THEN Unwind(t, out.err)
         ELSE SetTop(t, [ Top(t) EXCEPT !.pc = "append", !.out = out ]) /\ got' = got
  /\ UNCHANGED << greedyVars, harnessVars, tspVars, memoVars, opt2Vars >>

\* res0 = run(tsp, cities, None)
ThreadInnerRun(t) ==
  /\ Running(t, "body") /\ Top(t).opt # "None"
  /\ frames' = [ frames EXCEPT ![t] =
                   [ @ EXCEPT ![Len(@)] = [ @ EXCEPT !.pc = "opt" ] ]
                   \o << Frame(Top(t).tsp, Top(t).cities, "None", "positional") >> ]
  /\ UNCHANGED << greedyVars, got, harnessVars, tspVars, memoVars, opt2Vars >>

\* tour = opt(Tour(res0.tour))
ThreadOpt(t) ==
  /\ Running(t, "opt")
  /\ LET out == apply_opt(Top(t).opt, Top(t).res0.tour)
     IN  IF out.kind = "raise" THEN Unwind(t, out.err)
         ELSE SetTop(t, [ Top(t) EXCEPT !.pc = "append", !.out = out ]) /\ got' = got
  /\ UNCHANGED << greedyVars, harnessVars, tspVars, memoVars, opt2Vars >>

\* result = Result(...); all_results[cities].append(result)
ThreadAppend(t) ==
  /\ Running(t, "append")
  /\ LET f      == Top(t)
         result == [ tsp |-> f.tsp, opt |-> f.opt, tour |-> f.out, cities |-> Range(f.cities),
                     secs |-> clock + 1 ]
     IN  /\ all_results' = [ all_results EXCEPT ![Range(f.cities)] = append_result(@, result) ]
         /\ clock' = clock + 1
         /\ SetTop(t, [ f EXCEPT !.pc = "assert", !.res = result ])
  /\ UNCHANGED << greedyVars, got, run_cache, benchmark_cache, returned, tspVars, memoVars, opt2Vars >>

\* assert valid_tour(tour, cities)
ThreadAssert(t) ==
  /\ Running(t, "assert")
  /\ IF assert_valid(Top(t).out, Top(t).cities)
     THEN SetTop(t, [ Top(t) EXCEPT !.pc = "store" ]) /\ got' = got
     ELSE Unwind(t, "AssertionError")
  /\ UNCHANGED << greedyVars, harnessVars, tspVars, memoVars, opt2Vars >>

\* return result: the wrapper of lru_cache stores it under the key
ThreadStore(t) ==
  /\ Running(t, "store")
  /\ run_cache' = (FrameKey(Top(t)) :> Top(t).res) @@ run_cache
  /\ Deliver(t, Top(t).res)
  /\ UNCHANGED << greedyVars, all_results, benchmark_cache, returned, clock, tspVars, memoVars, opt2Vars >>

ThreadNext ==
  \E t \in Threads :
    \/ ThreadLookup(t)
    \/ ThreadTsp(t)
    \/ ThreadInnerRun(t)
    \/ ThreadOpt(t)
    \/ ThreadAppend(t)
    \/ ThreadAssert(t)
    \/ ThreadStore(t)

SpecThreads == ThreadInit /\ [][ThreadNext]_vars

\* ============================================== valid_tour on any list
\* every list of at most n elements of S
RECURSIVE Tuples(_, _)
Tuples(S, n) ==
  IF n = 0 THEN { << >> }
  ELSE LET shorter == Tuples(S, n - 1)
       IN  shorter \cup { Append(p[1], p[2]) : p \in shorter \X S }

ValidUniverse == { << 0, 0 >>, << 3, 0 >>, << 3, 4 >>, << 0, 4 >> }

\* the Cities set is drawn from three of the cities, the list from all four:
\* outcome holds the list, returned what valid_tour says of it
ValidTourInit ==
  /\ inst \in Orders(ValidUniverse \ { << 0, 4 >> }, 3)
  /\ \E t \in Tuples(ValidUniverse, MaxValid) : outcome = Ret(t)
  /\ called = NotCalled
  /\ returned = FALSE
  /\ sseg_cache = NoMemo /\ solve = 0 /\ reads = { } /\ atStart = 0
  /\ g_endpoints = << >> /\ g_links = << >> /\ g_k = 0 /\ g_pc = ""
  /\ o2_tour = << >> /\ o2_tour0 = << >> /\ o2_k = 0 /\ o2_changed = FALSE /\ o2_pc = ""
  /\ all_results = << >> /\ run_cache = << >> /\ benchmark_cache = << >> /\ clock = 0
  /\ frames = << >> /\ got = << >>

ValidTour ==
  /\ called = NotCalled
  /\ called' = Call("valid_tour", 0, << >>)
  /\ returned' = valid_tour(outcome.tour, inst)
  /\ UNCHANGED << greedyVars, inst, outcome, all_results, run_cache, benchmark_cache, clock,
                  memoVars, opt2Vars, threadVars >>

SpecValidTour == ValidTourInit /\ [][ValidTour]_vars

\* ================================================ greedy_tsp, step by step
\* One step is one iteration of the for loop over the links.
GreedyInit ==
  /\ inst \in Inputs
  /\ g_endpoints = greedy_init(inst)
  /\ g_links = shortest_links_first(inst)
  /\ g_k = 1
  /\ g_pc = "loop"
  /\ called = Call("greedy_tsp", 0, << >>)
  /\ outcome = RetNone
  /\ sseg_cache = NoMemo /\ solve = 0 /\ reads = { } /\ atStart = 0
  /\ o2_tour = << >> /\ o2_tour0 = << >> /\ o2_k = 0 /\ o2_changed = FALSE /\ o2_pc = ""
  /\ all_results = << >> /\ run_cache = << >> /\ benchmark_cache = << >>
  /\ returned = << >> /\ clock = 0
  /\ frames = << >> /\ got = << >>

\* the loop is at a link
GreedyAtLink == g_pc = "loop" /\ g_k <= Len(g_links)

\* the link under the loop joins two segments
GreedyLinkJoins == greedy_accepts(g_endpoints, g_links[g_k][1], g_links[g_k][2])

\* the dict and the segment that join_segments gives for the link
GreedyJoined == join_segments(g_endpoints, g_links[g_k][1], g_links[g_k][2])

\* the if fails: on to the next link
GreedyReject ==
  /\ GreedyAtLink
  /\ ~ GreedyLinkJoins
  /\ g_k' = g_k + 1
  /\ UNCHANGED << g_endpoints, g_links, g_pc, tspVars, memoVars, opt2Vars, harnessVars, threadVars >>

\* the segments are joined, and cities are still missing from the segment
GreedyJoin ==
  /\ GreedyAtLink
  /\ GreedyLinkJoins
  /\ Len(GreedyJoined.joined) # Len(inst)
  /\ g_endpoints' = GreedyJoined.endpoints
  /\ g_k' = g_k + 1
  /\ UNCHANGED << g_links, g_pc, tspVars, memoVars, opt2Vars, harnessVars, threadVars >>

\* the joined segment holds len(cities) cities: return joined_segment
GreedyReturn ==
  /\ GreedyAtLink
  /\ GreedyLinkJoins
  /\ Len(GreedyJoined.joined) = Len(inst)
  /\ g_endpoints' = GreedyJoined.endpoints
  /\ outcome' = Ret(GreedyJoined.joined)
  /\ g_pc' = "done"
  /\ UNCHANGED << g_links, g_k, inst, called, memoVars, opt2Vars, harnessVars, threadVars >>

\* the links are used up: the function ends without a return statement
GreedyFallOff ==
  /\ g_pc = "loop" /\ g_k > Len(g_links)
  /\ outcome' = RetNone
  /\ g_pc' = "done"
  /\ UNCHANGED << g_endpoints, g_links, g_k, inst, called, memoVars, opt2Vars, harnessVars,
                  threadVars >>

GreedyNext ==
  \/ GreedyReject
  \/ GreedyJoin
  \/ GreedyReturn
  \/ GreedyFallOff

SpecGreedy == GreedyInit /\ [][GreedyNext]_vars

\* ================================================================== claims
Constructions ==
  { "exhaustive_tsp", "nearest_tsp", "rep_nearest_tsp", "greedy_tsp", "mst_tsp",
    "divide_tsp", "held_karp_tsp" }

\* the arguments of the call are in the range the algorithm is meant for
ProperCall ==
  /\ called.f \in Constructions
  /\ called.f = "divide_tsp" => called.n >= 2
  /\ called.f = "rep_nearest_tsp" => called.n >= 1

\* C1: for every Cities set, each construction algorithm, alone or followed
\* by opt2, returns a tour that is a permutation of the cities.
C1_EveryTourValid ==
  ProperCall => outcome.kind # "raise" /\ assert_valid(outcome, inst)

IsPrefix(s, t) == Len(s) <= Len(t) /\ \A i \in 1 .. Len(s) : s[i] = t[i]

Histories == { all_results[S] : S \in DOMAIN all_results }

SameRequest(r, q) == r.tsp = q.tsp /\ r.opt = q.opt /\ r.cities = q.cities

\* C2: a history holds at most one Result per (algorithm, optimizer) pair,
\* and a call of run returns the first Result made for its triple, however
\* the optimizer argument was passed.
C2_RunIdempotent ==
  /\ \A h \in Histories : \A i, j \in 1 .. Len(h) : SameRequest(h[i], h[j]) => i = j
  /\ (returned.op = "run" /\ returned.err = "") =>
       \A h \in Histories : \A i \in 1 .. Len(h) :
         SameRequest(h[i], returned.results[1]) => returned.results[1].secs <= h[i].secs

\* C3 as stated: every harness operation leaves the history it had as a
\* prefix of the history after it.
C3_AppendOnly ==
  [][ \A S \in DOMAIN all_results : IsPrefix(all_results[S], all_results'[S]) ]_vars

IsSortedByLength(h) == \A i \in 1 .. (Len(h) - 1) : length(h[i]) <= length(h[i + 1])

\* C3 amended: no harness operation removes a Result from a history; run,
\* benchmark and ensemble_tsp leave the history they found as a prefix, and a
\* runs that returns leaves the history sorted by tour length.
C3_NeverRemoved ==
  [][ \A S \in DOMAIN all_results :
        /\ Counter(all_results[S]) \sqsubseteq Counter(all_results'[S])
        /\ returned'.op # "runs" => IsPrefix(all_results[S], all_results'[S])
        /\ (returned'.op = "runs" /\ returned'.err = "" /\ all_results'[S] # all_results[S])
             => IsSortedByLength(all_results'[S]) ]_vars

\* a runs has put a later Result before an earlier one
C3_Witness ==
  /\ returned.op = "runs" /\ returned.err = ""
  /\ \E h \in Histories : \E i, j \in 1 .. Len(h) : i < j /\ h[i].secs > h[j].secs

\* C4: every reversal opt2 applies makes the tour strictly shorter, so the
\* tour opt2 returns is no longer than the tour it was given.
C4_ReversalShortens ==
  /\ [][ o2_tour' # o2_tour => tour_length(o2_tour') < tour_length(o2_tour) ]_vars
  /\ [](tour_length(opt2(o2_tour0)) <= tour_length(o2_tour0))
  /\ [](o2_pc = "done" => o2_tour = opt2(o2_tour0))

\* opt2 has returned a tour shorter than the one it was given
C4_Witness == o2_pc = "done" /\ tour_length(o2_tour) < tour_length(o2_tour0)

LocalOptimum(t) ==
  \A p \in Range(subsegments(Len(t))) : ~ reversal_is_improvement(t, p[1], p[2])

\* C5: opt2 returns after finitely many passes, and no index pair of
\* subsegments is an improving reversal of the tour it returns.
C5_Opt2ReachesLocalOptimum ==
  /\ <>(o2_pc = "done")
  /\ [](o2_pc = "done" => LocalOptimum(o2_tour))

\* opt2 has returned after at least one reversal
C5_Witness == o2_pc = "done" /\ o2_tour # o2_tour0 /\ Len(o2_tour) >= 4

\* C6: held_karp_tsp and exhaustive_tsp both return a tour, and the two
\* tours have the same length.
C6_HeldKarpIsExhaustive ==
  (called.f = "held_karp_tsp" /\ ~ called.opt) =>
     /\ outcome.kind = "tour"
     /\ exhaustive_tsp(inst).kind = "tour"
     /\ tour_length(outcome.tour) = tour_length(exhaustive_tsp(inst).tour)

\* C7: the cache of shortest_segment is empty when a solve begins, every
\* entry a solve reads was computed by that solve, and the cache never
\* holds entries of two solves.
C7_MemoFresh ==
  /\ atStart = 0
  /\ reads \subseteq { solve }
  /\ \A key \in DOMAIN sseg_cache : sseg_cache[key].solve = solve

\* a second solve has read entries of the cache
C7_Witness == solve >= 2 /\ reads = { solve } /\ Len(inst) >= 3

\* C8: divide_tsp with split < 2 and rep_nearest_tsp with k <= 0 raise at
\* the top-level call, before any recursive call.
C8_ConfigErrorAtCall ==
  ((called.f = "divide_tsp" /\ called.n < 2) \/ (called.f = "rep_nearest_tsp" /\ called.n <= 0))
     => outcome.kind = "raise" /\ outcome.depth = 0

\* C9: when both threads have returned from run, they hold the same Result
\* and the history holds exactly one Result for their triple.
C9_NoDuplicateWork ==
  (\A t \in Threads : got[t].done /\ got[t].err = "") =>
     /\ \A t, u \in Threads : got[t].res = got[u].res
     /\ \A t \in Threads :
          Cardinality({ i \in 1 .. Len(all_results[got[t].res.cities]) :
                          SameRequest(all_results[got[t].res.cities][i], got[t].res) }) = 1

Triangle == { << 0, 0 >>, << 3, 0 >>, << 3, 4 >> }

IsOrderingOf(tour, cities) ==
  /\ Len(tour) = Len(cities)
  /\ \E p \in [ 1 .. Len(tour) -> 1 .. Len(tour) ] :
       /\ \A i, j \in 1 .. Len(tour) : p[i] = p[j] => i = j
       /\ \A i \in 1 .. Len(tour) : tour[i] = cities[p[i]]

\* C11: valid_tour accepts a list exactly when it is an ordering of the
\* Cities set: a list that omits a city, repeats a city or holds a city
\* outside the set is rejected, every ordering of the whole set is accepted.
C11_ValidTourIsMultisetEquality ==
  called.f = "valid_tour" =>
    /\ returned <=> IsOrderingOf(outcome.tour, inst)
    /\ Range(inst) \ Range(outcome.tour) # { } => ~ returned
    /\ (\E i, j \in 1 .. Len(outcome.tour) : i # j /\ outcome.tour[i] = outcome.tour[j])
         => ~ returned
    /\ Range(outcome.tour) \ Range(inst) # { } => ~ returned

\* valid_tour has accepted an ordering that is not the iteration order of
\* the set
C11_Witness ==
  /\ called.f = "valid_tour" /\ returned = TRUE
  /\ Len(inst) = 3 /\ outcome.tour # inst

\* the segments the dict holds
Segments == { g_endpoints[K] : K \in DOMAIN g_endpoints }

\* the segments hold every city once, and no city twice
SegmentsPartition ==
  /\ UNION { Range(seg) : seg \in Segments } = Range(inst)
  /\ \A seg \in Segments : seg # << >> /\ Cardinality(Range(seg)) = Len(seg)
  /\ \A s1, s2 \in Segments : s1 # s2 => Range(s1) \cap Range(s2) = { }

\* the keys are the first and last cities of the segments, each key mapped
\* to the segment it ends
KeysAreEnds ==
  /\ DOMAIN g_endpoints = UNION { { seg[1], seg[Len(seg)] } : seg \in Segments }
  /\ \A K \in DOMAIN g_endpoints :
       K \in { g_endpoints[K][1], g_endpoints[K][Len(g_endpoints[K])] }

\* the step joins two segments that had no city in common, at an end of each
JoinsTwoSegments ==
  \E s1, s2 \in Segments :
    /\ Range(s1) \cap Range(s2) = { }
    /\ g_links[g_k][1] \in { s1[1], s1[Len(s1)] }
    /\ g_links[g_k][2] \in { s2[1], s2[Len(s2)] }
    /\ Segments' = (Segments \ { s1, s2 }) \cup { GreedyJoined.joined }
    /\ Range(GreedyJoined.joined) = Range(s1) \cup Range(s2)
    /\ Len(GreedyJoined.joined) = Len(s1) + Len(s2)

\* C12: at every step of greedy_tsp the segments of endpoints partition the
\* cities and the keys of endpoints are the first and last cities of the
\* segments; a step that changes endpoints joins two different segments at
\* their ends; with two or more cities the loop ends by returning one
\* segment of all the cities.
C12_GreedyEndpoints ==
  /\ [](SegmentsPartition /\ KeysAreEnds)
  /\ [][ g_endpoints' # g_endpoints => JoinsTwoSegments ]_vars
  /\ []((g_pc = "done" /\ Len(inst) >= 2) =>
          /\ outcome.kind = "tour"
          /\ Len(outcome.tour) = Len(inst)
          /\ Segments = { outcome.tour })
  /\ [](g_pc = "done" => outcome = greedy_tsp(inst))

\* greedy_tsp has returned after refusing a link and after reversing a
\* segment to join it
C12_Witness ==
  /\ g_pc = "done" /\ outcome.kind = "tour" /\ Len(inst) = 4
  /\ g_k > 3
  /\ \E i \in 1 .. 3 : << outcome.tour[i + 1], outcome.tour[i] >> \in Range(g_links)

\* every city of the tour after the first is as close to the city before it
\* as any city not visited by then
EachIsNearest(tour) ==
  \A i \in 2 .. Len(tour) : \A j \in i .. Len(tour) :
    distance(tour[i], tour[i - 1]) <= distance(tour[j], tour[i - 1])

\* C13: nearest_tsp called with a start city of the set returns a tour that
\* begins with that city, and every later city of the tour is a closest
\* city to its predecessor among the cities not yet visited.
C13_NearestFromStart ==
  (called.f = "nearest_tsp" /\ ~ called.opt /\ called.start # << >>) =>
     /\ outcome.kind = "tour"
     /\ outcome.tour[1] = called.start[1]
     /\ valid_tour(outcome.tour, inst)
     /\ EachIsNearest(outcome.tour)

\* the Result holds a list that visits every city of its Cities set once
ResultIsValid(r) ==
  /\ r.tour.kind = "tour"
  /\ Range(r.tour.tour) = r.cities
  /\ Len(r.tour.tour) = Cardinality(r.cities)

\* C14: every Result in a history holds a valid tour of its cities, and a
\* run that ends in the AssertionError leaves every history as it was.
C14_HistoryHoldsValidTours ==
  /\ \A S \in DOMAIN all_results : \A i \in 1 .. Len(all_results[S]) :
       ResultIsValid(all_results[S][i])
  /\ (returned.op = "run" /\ returned.err = "AssertionError") =>
       \A S \in DOMAIN all_results : \A i \in 1 .. Len(all_results[S]) :
         all_results[S][i].secs < clock

====
